---- MODULE Spec2Model ----
(***************************************************************************)
(* Orchestration controller of the AWT dashboard                           *)
(* (cloud/frontend/src/app/dashboard/page.tsx) and the execution monitor   *)
(* (cloud/frontend/src/components/TestProgress.tsx), as state machines.    *)
(* Every remote call is split at its await: the request is one step, its   *)
(* resolution (success or rejection) a later step, so that other handlers  *)
(* interleave exactly where the event loop lets them.                      *)
(***************************************************************************)
EXTENDS Integers, Sequences, FiniteSets, TLC

(* ------------------------------ bounds -------------------------------- *)
\* handleStartScan invocations explored by the lifecycle specification
MaxScans == 2
\* scans the remote service creates (each leaves a socket and a poll timer)
MaxLive == 1
\* poll requests that may be awaiting their response at once
MaxInFlight == 2
\* scan_log entries retained in the explored runs
MaxLogs == 2
\* largest counter value a page_scanned payload carries
MaxCount == 2
\* execution events delivered to one monitor in the explored runs
MaxEvents == 3
\* steps a scenario declares
MaxSteps == 2
\* connections one monitor opens in the explored runs
MaxConnects == 3

\* the superseded-scan specification explores one invocation and one created
\* scan more than the lifecycle specification
StaleScans == MaxScans + 1
StaleLive == MaxLive + 1

Scans == 1..StaleScans

(* --------------------------- scan-side state --------------------------- *)
VARIABLES
  scanPhase,        \* useState scanPhase
  error,            \* useState error
  planTriggered,    \* planTriggeredRef.current
  activeScan,       \* useState activeScan (NoScan models null)
  scanProgress,     \* useState scanProgress
  scanLogs,         \* useState scanLogs
  planCategories,   \* useState planCategories
  selectedTests,    \* useState selectedTests
  expandedCats,     \* useState expandedCats
  authData,         \* useState authData
  testData,         \* useState testData
  planLoading,      \* useState planLoading
  \* the closures and requests one handleStartScan invocation leaves behind
  starts,           \* number of handleStartScan invocations so far
  st,               \* per invocation: "none" | "pending" | "created" | "failed"
  remote,           \* the remote service's status of the scan
  ws,               \* the scan's socket: "none" | "open" | "closed"
  pollTimer,        \* the scan's setInterval is armed
  pollInFlight,     \* getScan requests of the poll awaiting their response
  refreshInFlight,  \* getScan requests of triggerPlan awaiting their response
  genInFlight,      \* generateScanPlan requests awaiting their response
  \* history
  triggerCount,     \* refresh requests issued by triggerPlan, per scan
  genRequests,      \* generateScanPlan requests issued, per scan
  completionSeen,   \* the sources ("ws", "poll") whose completion signal was handled
  failSeen          \* a scan_error event or a polled 'failed' was handled

scanVars == <<scanPhase, error, planTriggered, activeScan, scanProgress, scanLogs,
              planCategories, selectedTests, expandedCats, authData, testData,
              planLoading, starts, st, remote, ws, pollTimer, pollInFlight,
              refreshInFlight, genInFlight, triggerCount, genRequests,
              completionSeen, failSeen>>

(* ------------------ controller and execution monitor ------------------- *)
VARIABLES
  phase,            \* useState phase
  activeTest,       \* useState activeTest (NoTest models null)
  testPassed,       \* useState testPassed
  monMounted,       \* TestProgress mountedRef.current
  monStatus,        \* TestProgress useState status
  testStarted,      \* TestProgress testStartedRef.current
  monSock,          \* the socket of wsRef: "none" | "open" | "closing" | "closed"
  reconnectTimer,   \* armed reconnect timeouts
  events,           \* TestProgress useState events
  currentStep,      \* TestProgress useState currentStep
  totalSteps,       \* TestProgress useState totalSteps
  steps,            \* TestProgress useState steps
  liveImage,        \* TestProgress useState liveImage ("" models null)
  stepLabel,        \* TestProgress useState stepLabel (message key)
  readyCalls,       \* onScenariosReady invocations
  connects          \* history: connectWS calls

(* ------------------- job control and remote jobs ----------------------- *)
VARIABLES
  cancelling,           \* useState cancelling
  cancelClosure,        \* activeTest as captured by the handleCancel awaiting
                        \* cancelTest (NoTest: none awaiting)
  scanExecuting,        \* useState scanExecuting
  exec,                 \* the handleExecuteScan invocation awaiting a call
  additionalYaml,       \* useState additionalYaml
  additionalConverting, \* useState additionalConverting
  jobs,                 \* the remote service's execution jobs, by id
  cancelIssued,         \* ids of the jobs a cancelTest request was sent for
  uiLast                \* history: the last plan-selection handler that ran

jobVars == <<cancelling, cancelClosure, scanExecuting, exec, additionalYaml,
             additionalConverting, jobs, cancelIssued>>

(* ------------- direct mode, validation results and review -------------- *)
VARIABLES
  directMode,               \* useState directMode
  converting,               \* useState converting
  convertedYaml,            \* useState convertedYaml
  submitting,               \* useState submitting
  convertValidationSummary, \* useState convertValidationSummary
  scanValidationSummary,    \* useState scanValidationSummary
  scenarioYaml,             \* useState scenarioYaml
  edYaml,                   \* ScenarioEditor useState yaml
  edPc,                     \* ScenarioEditor: the call handleRunTest awaits
                            \* (approving) and the yaml of its closure
  edSaving,                 \* ScenarioEditor useState saving and saved, and
                            \* the yaml of handleSave's closure
  edError,                  \* ScenarioEditor useState error
  edCalls                   \* history: the calls of the last handleRunTest
                            \* invocation that resolved, in order

sideVars == <<directMode, converting, convertedYaml, submitting,
              convertValidationSummary, scenarioYaml, edYaml, edPc, edSaving,
              edError, edCalls>>

ctlVars == <<phase, activeTest, testPassed, jobVars, uiLast, sideVars,
             scanValidationSummary>>

monVars == <<monMounted, monStatus, testStarted, monSock, reconnectTimer, events,
             currentStep, totalSteps, steps, liveImage, stepLabel, readyCalls,
             connects>>

vars == <<scanVars, ctlVars, monVars>>

(* ------------------------------ values -------------------------------- *)
NoScan == [id |-> 0, status |-> "none"]

NoTest == [id |-> 0, status |-> "none"]

\* no handleExecuteScan invocation is awaiting a call
NoExec == [pc |-> "idle", plan |-> 0, merged |-> 0, yaml |-> "", doc |-> ""]

\* api.ts 158-173: the job the remote service creates for a document
Job(doc) == [doc |-> doc, cancelled |-> FALSE]

\* ScenarioEditor.tsx 18, 37-49: handleRunTest is not running
NoRun == [at |-> "idle", yaml |-> ""]

\* ScenarioEditor.tsx 17, 20, 22-35: handleSave is not running, nothing saved
NoSave == [on |-> FALSE, yaml |-> "", saved |-> FALSE]

\* page.tsx 48, 65: no validation summary (null)
NoSummary == [present |-> FALSE, verified |-> 0, total |-> 0, percent |-> 0]

\* page.tsx 127, 399, 416: result.validation_summary || null
OrElseSummary(s) == IF s.present THEN s ELSE NoSummary

\* Math.round of a non-negative ratio n / d
RoundRatio(n, d) == (2 * n + d) \div (2 * d)

\* the summary the remote service reduces a validation list to: verified of
\* total items, percent the rounded ratio (0 when the list is empty)
ValidationSummaryOf(verified, total) ==
  [present |-> TRUE, verified |-> verified, total |-> total,
   percent |-> IF total > 0 THEN RoundRatio(100 * verified, total) ELSE 0]

\* no plan-selection handler has run yet
NoUi == [op |-> "", target |-> "", before |-> {}]

\* a payload field that is missing from the JSON message (undefined)
Absent == <<"undefined">>

InitProgress == [pages |-> 0, max |-> 5, links |-> 0, forms |-> 0, buttons |-> 0,
                 features |-> <<>>, currentUrl |-> ""]

\* JavaScript a || b on a number: 0 and undefined (modelled as 0) are falsy
OrElseNum(a, b) == IF a = 0 THEN b ELSE a

\* JavaScript a || b on a string: "" and undefined (modelled as "") are falsy
OrElseStr(a, b) == IF a = "" THEN b ELSE a

\* JavaScript a || b on an array-or-undefined: every array, the empty one
\* included, is truthy
OrElseArr(a, b) == IF a = Absent THEN b ELSE a

\* [...new Set(seq)]: first occurrences, in order
\* sum of f over the scans 1..n
RECURSIVE SumTo(_, _)
SumTo(f, n) == IF n = 0 THEN 0 ELSE f[n] + SumTo(f, n - 1)

RECURSIVE Dedupe(_)
Dedupe(seq) ==
  IF seq = <<>> THEN <<>>
  ELSE LET init == Dedupe(SubSeq(seq, 1, Len(seq) - 1))
           last == seq[Len(seq)]
       IN IF \E i \in 1..Len(init) : init[i] = last THEN init ELSE Append(init, last)

\* Record<string, string> with no key yet ({})
NoFields == [key \in {} |-> ""]

\* { ...prev, [key]: value }
PutField(rec, key, value) ==
  [x \in DOMAIN rec \cup {key} |-> IF x = key THEN value ELSE rec[x]]

\* rec[key] || "": the value an input bound to the key shows
FieldValue(rec, key) == IF key \in DOMAIN rec THEN OrElseStr(rec[key], "") ELSE ""

\* the plan the remote planner returns: two tests of one category declare a
\* test-data field with the same key
PlanFixture ==
  << [id |-> "checkout", auto_selected |-> TRUE,
      tests |-> << [id |-> "c1", selected |-> TRUE, requires_auth |-> TRUE,
                    test_data_fields |-> <<"keyword">>],
                   [id |-> "c2", selected |-> TRUE, requires_auth |-> FALSE,
                    test_data_fields |-> <<"keyword">>],
                   [id |-> "c3", selected |-> FALSE, requires_auth |-> FALSE,
                    test_data_fields |-> <<>>] >>],
     [id |-> "search", auto_selected |-> FALSE,
      tests |-> << [id |-> "s1", selected |-> TRUE, requires_auth |-> FALSE,
                    test_data_fields |-> <<"query">>] >>] >>

Plans == {PlanFixture}

AutoSelected(cats) ==
  UNION { IF cats[i].auto_selected
            THEN { cats[i].tests[j].id :
                     j \in { n \in 1..Len(cats[i].tests) : cats[i].tests[n].selected # FALSE } }
            ELSE {}
          : i \in 1..Len(cats) }

AutoExpanded(cats) == { cats[i].id : i \in { j \in 1..Len(cats) : cats[j].auto_selected } }

\* page.tsx 498: isBusy
IsBusy == submitting \/ additionalConverting \/ phase \notin {"idle", "done"}

(* ------------------------------- Init --------------------------------- *)
ScanInit ==
  /\ scanPhase = "idle"
  /\ error = ""
  /\ planTriggered = FALSE
  /\ activeScan = NoScan
  /\ scanProgress = InitProgress
  /\ scanLogs = <<>>
  /\ planCategories = <<>>
  /\ selectedTests = {}
  /\ expandedCats = {}
  /\ authData = NoFields
  /\ testData = NoFields
  /\ planLoading = FALSE
  /\ starts = 0
  /\ st = [k \in Scans |-> "none"]
  /\ remote = [k \in Scans |-> "none"]
  /\ ws = [k \in Scans |-> "none"]
  /\ pollTimer = [k \in Scans |-> FALSE]
  /\ pollInFlight = [k \in Scans |-> 0]
  /\ refreshInFlight = [k \in Scans |-> 0]
  /\ genInFlight = [k \in Scans |-> 0]
  /\ triggerCount = [k \in Scans |-> 0]
  /\ genRequests = [k \in Scans |-> 0]
  /\ completionSeen = [k \in Scans |-> {}]
  /\ failSeen = [k \in Scans |-> FALSE]

\* page.tsx 30-32: no job yet, so no TestProgress is rendered (page.tsx 1250, 1278)
JobInit ==
  /\ cancelling = FALSE
  /\ cancelClosure = NoTest
  /\ scanExecuting = FALSE
  /\ exec = NoExec
  /\ additionalYaml = ""
  /\ additionalConverting = FALSE
  /\ jobs = <<>>
  /\ cancelIssued = {}
  /\ uiLast = NoUi

\* page.tsx 29-48, 65, ScenarioEditor.tsx 16-20
SideInit ==
  /\ directMode = FALSE
  /\ converting = FALSE
  /\ convertedYaml = ""
  /\ submitting = FALSE
  /\ convertValidationSummary = NoSummary
  /\ scanValidationSummary = NoSummary
  /\ scenarioYaml = ""
  /\ edYaml = ""
  /\ edPc = NoRun
  /\ edSaving = NoSave
  /\ edError = ""
  /\ edCalls = <<>>

CtlInit ==
  /\ phase = "idle"
  /\ activeTest = NoTest
  /\ testPassed = FALSE
  /\ JobInit
  /\ SideInit

\* TestProgress.tsx 41-55: the component's initial values
MonFresh ==
  /\ monStatus = "connecting"
  /\ testStarted = FALSE
  /\ reconnectTimer = 0
  /\ events = <<>>
  /\ currentStep = 0
  /\ totalSteps = 0
  /\ steps = <<>>
  /\ liveImage = ""
  /\ stepLabel = ""
  /\ readyCalls = 0

MonAbsent == MonFresh /\ monMounted = FALSE /\ monSock = "none" /\ connects = 0

Init == ScanInit /\ CtlInit /\ MonAbsent

(* --------------------------- scan handlers ----------------------------- *)
\* triggerPlan with the latch never consulted
triggerPlanNoLatch(k) ==
  /\ planTriggered' = TRUE
  /\ refreshInFlight' = [refreshInFlight EXCEPT ![k] = @ + 1]
  /\ triggerCount' = [triggerCount EXCEPT ![k] = @ + 1]

\* page.tsx 238-248: the latch, then the status refresh whose resolution
\* (RefreshOk) continues into handleGeneratePlan
triggerPlan(k) ==
  IF planTriggered
    THEN UNCHANGED <<planTriggered, refreshInFlight, triggerCount>>
    ELSE /\ planTriggered' = TRUE
         /\ refreshInFlight' = [refreshInFlight EXCEPT ![k] = @ + 1]
         /\ triggerCount' = [triggerCount EXCEPT ![k] = @ + 1]

\* page.tsx 223-235: handleStartScan up to its await; the Start button is
\* rendered only while scanPhase is idle and disabled while a job is in
\* progress (isBusy, page.tsx 498, 771-775)
HandleStartScan ==
  /\ scanPhase = "idle"
  /\ ~IsBusy
  /\ error' = ""
  /\ scanPhase' = "scanning"
  /\ planTriggered' = FALSE
  /\ scanProgress' = InitProgress
  /\ scanLogs' = <<>>
  /\ planCategories' = <<>>
  /\ selectedTests' = {}
  /\ authData' = NoFields
  /\ testData' = NoFields
  /\ starts' = starts + 1
  /\ st' = [st EXCEPT ![starts + 1] = "pending"]
  /\ UNCHANGED <<activeScan, expandedCats, planLoading, remote, ws, pollTimer,
                 pollInFlight, refreshInFlight, genInFlight, triggerCount,
                 genRequests, completionSeen,
                 failSeen,
                 ctlVars, monVars>>

\* page.tsx 235-236, 251, 286-289: startScan resolved; the socket is opened
\* and the poll interval armed
StartScanOk(k) ==
  /\ st[k] = "pending"
  /\ st' = [st EXCEPT ![k] = "created"]
  /\ remote' = [remote EXCEPT ![k] = "scanning"]
  /\ activeScan' = [id |-> k, status |-> "scanning"]
  /\ ws' = [ws EXCEPT ![k] = "open"]
  /\ pollTimer' = [pollTimer EXCEPT ![k] = TRUE]
  /\ UNCHANGED <<scanPhase, error, planTriggered, scanProgress, scanLogs,
                 planCategories, selectedTests, expandedCats, authData,
                 testData, planLoading, starts, pollInFlight, refreshInFlight,
                 genInFlight, triggerCount, genRequests, completionSeen,
                 failSeen,
                 ctlVars, monVars>>

\* page.tsx 305-309: startScan rejected
StartScanFail(k) ==
  /\ st[k] = "pending"
  /\ st' = [st EXCEPT ![k] = "failed"]
  /\ error' = "Failed to start scan"
  /\ scanPhase' = "idle"
  /\ UNCHANGED <<planTriggered, activeScan, scanProgress, scanLogs,
                 planCategories, selectedTests, expandedCats, authData,
                 testData, planLoading, starts, remote, ws, pollTimer,
                 pollInFlight, refreshInFlight, genInFlight, triggerCount,
                 genRequests, completionSeen,
                 failSeen,
                 ctlVars, monVars>>

\* the remote crawl ends, once, as completed or failed
ServerFinish(k, outcome) ==
  /\ remote[k] = "scanning"
  /\ remote' = [remote EXCEPT ![k] = outcome]
  /\ UNCHANGED <<scanPhase, error, planTriggered, activeScan, scanProgress,
                 scanLogs, planCategories, selectedTests, expandedCats,
                 authData, testData, planLoading, starts, st, ws, pollTimer,
                 pollInFlight, refreshInFlight, genInFlight, triggerCount,
                 genRequests, completionSeen,
                 failSeen,
                 ctlVars, monVars>>

\* page.tsx 253-263
PageScannedProgress(prev, d) ==
  [prev EXCEPT !.pages = OrElseNum(d.pages_scanned, prev.pages),
               !.max = OrElseNum(d.max_pages, prev.max),
               !.links = OrElseNum(d.links_found, prev.links),
               !.forms = OrElseNum(d.forms_found, prev.forms),
               !.buttons = OrElseNum(d.buttons_found, prev.buttons),
               !.features = OrElseArr(d.features, prev.features),
               !.currentUrl = OrElseStr(d.url, prev.currentUrl)]

\* page.tsx 274-278
FeatureDetectedProgress(prev, f) ==
  [prev EXCEPT !.features = Dedupe(Append(prev.features, f))]

\* page.tsx 251-263: socket message of type page_scanned
WsPageScanned(k, d) ==
  /\ ws[k] = "open"
  /\ scanProgress' = PageScannedProgress(scanProgress, d)
  /\ UNCHANGED <<scanPhase, error, planTriggered, activeScan, scanLogs,
                 planCategories, selectedTests, expandedCats, authData,
                 testData, planLoading, starts, st, remote, ws, pollTimer,
                 pollInFlight, refreshInFlight, genInFlight, triggerCount,
                 genRequests, completionSeen,
                 failSeen,
                 ctlVars, monVars>>

\* page.tsx 264-273: socket message of type scan_log (Date.now() left out)
WsScanLog(k, d) ==
  /\ ws[k] = "open"
  /\ Len(scanLogs) < MaxLogs
  /\ scanLogs' = Append(scanLogs, [phase |-> OrElseStr(d.phase, ""),
                                   message |-> OrElseStr(d.message, ""),
                                   level |-> OrElseStr(d.level, "")])
  /\ UNCHANGED <<scanPhase, error, planTriggered, activeScan, scanProgress,
                 planCategories, selectedTests, expandedCats, authData,
                 testData, planLoading, starts, st, remote, ws, pollTimer,
                 pollInFlight, refreshInFlight, genInFlight, triggerCount,
                 genRequests, completionSeen,
                 failSeen,
                 ctlVars, monVars>>

\* page.tsx 274-278: socket message of type feature_detected
WsFeatureDetected(k, f) ==
  /\ ws[k] = "open"
  /\ scanProgress' = FeatureDetectedProgress(scanProgress, f)
  /\ UNCHANGED <<scanPhase, error, planTriggered, activeScan, scanLogs,
                 planCategories, selectedTests, expandedCats, authData,
                 testData, planLoading, starts, st, remote, ws, pollTimer,
                 pollInFlight, refreshInFlight, genInFlight, triggerCount,
                 genRequests, completionSeen,
                 failSeen,
                 ctlVars, monVars>>

\* page.tsx 279-280: socket message of type scan_complete
WsScanComplete(k) ==
  /\ ws[k] = "open"
  /\ remote[k] = "completed"
  /\ triggerPlan(k)
  /\ completionSeen' = [completionSeen EXCEPT ![k] = @ \cup {"ws"}]
  /\ UNCHANGED <<scanPhase, error, activeScan, scanProgress, scanLogs,
                 planCategories, selectedTests, expandedCats, authData,
                 testData, planLoading, starts, st, remote, ws, pollTimer,
                 pollInFlight, genInFlight, genRequests,
                 failSeen,
                 ctlVars, monVars>>

\* page.tsx 281-284: socket message of type scan_error
WsScanError(k, e) ==
  /\ ws[k] = "open"
  /\ remote[k] = "failed"
  /\ error' = OrElseStr(e, "Scan failed")
  /\ scanPhase' = "idle"
  /\ failSeen' = [failSeen EXCEPT ![k] = TRUE]
  /\ UNCHANGED <<planTriggered, activeScan, scanProgress, scanLogs,
                 planCategories, selectedTests, expandedCats, authData,
                 testData, planLoading, starts, st, remote, ws, pollTimer,
                 pollInFlight, refreshInFlight, genInFlight, triggerCount,
                 genRequests, completionSeen,
                 ctlVars, monVars>>

\* a close handler that treats the disconnect as a failed scan
WsCloseAsFailure(k) ==
  /\ ws[k] = "open"
  /\ ws' = [ws EXCEPT ![k] = "closed"]
  /\ error' = "Scan failed"
  /\ scanPhase' = "idle"
  /\ UNCHANGED <<planTriggered, activeScan, scanProgress, scanLogs, planCategories,
                 selectedTests, expandedCats, authData, testData, planLoading,
                 starts, st, remote, pollTimer, pollInFlight, refreshInFlight,
                 genInFlight, triggerCount, genRequests, completionSeen, failSeen,
                 ctlVars, monVars>>

\* api.ts 455-474, page.tsx 251: the socket closes; connectScanWS is called
\* without an onClose callback
WsClose(k) ==
  /\ ws[k] = "open"
  /\ ws' = [ws EXCEPT ![k] = "closed"]
  /\ UNCHANGED <<scanPhase, error, planTriggered, activeScan, scanProgress,
                 scanLogs, planCategories, selectedTests, expandedCats,
                 authData, testData, planLoading, starts, st, remote, pollTimer,
                 pollInFlight, refreshInFlight, genInFlight, triggerCount,
                 genRequests, completionSeen,
                 failSeen,
                 ctlVars, monVars>>

\* page.tsx 289-291: the interval fires and getScan is requested
PollTick(k) ==
  /\ pollTimer[k]
  /\ pollInFlight' = [pollInFlight EXCEPT ![k] = @ + 1]
  /\ UNCHANGED <<scanPhase, error, planTriggered, activeScan, scanProgress,
                 scanLogs, planCategories, selectedTests, expandedCats,
                 authData, testData, planLoading, starts, st, remote, ws,
                 pollTimer, refreshInFlight, genInFlight, triggerCount,
                 genRequests, completionSeen,
                 failSeen,
                 ctlVars, monVars>>

\* page.tsx 291-294: the poll's getScan resolved with status completed
PollCompleted(k) ==
  /\ pollInFlight[k] > 0
  /\ remote[k] = "completed"
  /\ pollInFlight' = [pollInFlight EXCEPT ![k] = @ - 1]
  /\ pollTimer' = [pollTimer EXCEPT ![k] = FALSE]
  /\ triggerPlan(k)
  /\ completionSeen' = [completionSeen EXCEPT ![k] = @ \cup {"poll"}]
  /\ UNCHANGED <<scanPhase, error, activeScan, scanProgress, scanLogs,
                 planCategories, selectedTests, expandedCats, authData,
                 testData, planLoading, starts, st, remote, ws, genInFlight,
                 genRequests,
                 failSeen,
                 ctlVars, monVars>>

\* page.tsx 295-300: the poll's getScan resolved with status failed (the
\* remote error_message is taken to be null, so the fallback text is shown)
PollFailed(k) ==
  /\ pollInFlight[k] > 0
  /\ remote[k] = "failed"
  /\ pollInFlight' = [pollInFlight EXCEPT ![k] = @ - 1]
  /\ pollTimer' = [pollTimer EXCEPT ![k] = FALSE]
  /\ activeScan' = [id |-> k, status |-> "failed"]
  /\ error' = "Scan failed"
  /\ scanPhase' = "idle"
  /\ failSeen' = [failSeen EXCEPT ![k] = TRUE]
  /\ UNCHANGED <<planTriggered, scanProgress, scanLogs, planCategories,
                 selectedTests, expandedCats, authData, testData, planLoading,
                 starts, st, remote, ws, refreshInFlight, genInFlight,
                 triggerCount, genRequests, completionSeen,
                 ctlVars, monVars>>

\* page.tsx 291-303: the poll's getScan resolved with another status, or was
\* rejected (catch: ignore)
PollOther(k) ==
  /\ pollInFlight[k] > 0
  /\ pollInFlight' = [pollInFlight EXCEPT ![k] = @ - 1]
  /\ UNCHANGED <<scanPhase, error, planTriggered, activeScan, scanProgress,
                 scanLogs, planCategories, selectedTests, expandedCats,
                 authData, testData, planLoading, starts, st, remote, ws,
                 pollTimer, refreshInFlight, genInFlight, triggerCount,
                 genRequests, completionSeen,
                 failSeen,
                 ctlVars, monVars>>

\* page.tsx 241-244 and 312-317: the refresh of triggerPlan resolved;
\* handleGeneratePlan runs up to its await
RefreshOk(k) ==
  /\ refreshInFlight[k] > 0
  /\ refreshInFlight' = [refreshInFlight EXCEPT ![k] = @ - 1]
  /\ activeScan' = [id |-> k, status |-> remote[k]]
  /\ scanPhase' = "plan"
  /\ planLoading' = TRUE
  /\ genInFlight' = [genInFlight EXCEPT ![k] = @ + 1]
  /\ genRequests' = [genRequests EXCEPT ![k] = @ + 1]
  /\ UNCHANGED <<error, planTriggered, scanProgress, scanLogs, planCategories,
                 selectedTests, expandedCats, authData, testData, starts, st,
                 remote, ws, pollTimer, pollInFlight, triggerCount,
                 completionSeen,
                 failSeen,
                 ctlVars, monVars>>

\* page.tsx 245-247: the refresh of triggerPlan was rejected
RefreshFail(k) ==
  /\ refreshInFlight[k] > 0
  /\ refreshInFlight' = [refreshInFlight EXCEPT ![k] = @ - 1]
  /\ scanPhase' = "plan"
  /\ UNCHANGED <<error, planTriggered, activeScan, scanProgress, scanLogs,
                 planCategories, selectedTests, expandedCats, authData,
                 testData, planLoading, starts, st, remote, ws, pollTimer,
                 pollInFlight, genInFlight, triggerCount, genRequests,
                 completionSeen,
                 failSeen,
                 ctlVars, monVars>>

\* page.tsx 317-335, 340-342: generateScanPlan resolved
GenPlanOk(k, plan) ==
  /\ genInFlight[k] > 0
  /\ genInFlight' = [genInFlight EXCEPT ![k] = @ - 1]
  /\ planCategories' = plan
  /\ selectedTests' = AutoSelected(plan)
  /\ expandedCats' = AutoExpanded(plan)
  /\ scanPhase' = "ready"
  /\ planLoading' = FALSE
  /\ UNCHANGED <<error, planTriggered, activeScan, scanProgress, scanLogs,
                 authData, testData, starts, st, remote, ws, pollTimer,
                 pollInFlight, refreshInFlight, triggerCount, genRequests,
                 completionSeen,
                 failSeen,
                 ctlVars, monVars>>

\* page.tsx 336-342: generateScanPlan rejected
GenPlanFail(k) ==
  /\ genInFlight[k] > 0
  /\ genInFlight' = [genInFlight EXCEPT ![k] = @ - 1]
  /\ error' = "Failed to generate plan"
  /\ scanPhase' = "plan"
  /\ planLoading' = FALSE
  /\ UNCHANGED <<planTriggered, activeScan, scanProgress, scanLogs,
                 planCategories, selectedTests, expandedCats, authData,
                 testData, starts, st, remote, ws, pollTimer, pollInFlight,
                 refreshInFlight, triggerCount, genRequests, completionSeen,
                 failSeen,
                 ctlVars, monVars>>

(* -------------------- the scan lifecycle specification ------------------ *)
\* payloads delivered while the lifecycle is explored
LifecyclePage == [pages_scanned |-> 1, max_pages |-> 0, links_found |-> 0,
                  forms_found |-> 0, buttons_found |-> 0, features |-> Absent,
                  url |-> ""]

ScanErrors == {""}

\* the handlers and the environment, explored up to maxScans invocations of
\* handleStartScan, maxLive created scans and MaxInFlight pending poll requests
NextScanUpTo(maxScans, maxLive) ==
  \/ starts < maxScans /\ HandleStartScan
  \/ \E k \in Scans : /\ Cardinality({j \in Scans : st[j] = "created"}) < maxLive
                       /\ StartScanOk(k)
  \/ \E k \in Scans : StartScanFail(k)
  \/ \E k \in Scans, o \in {"completed", "failed"} : ServerFinish(k, o)
  \/ \E k \in Scans : WsPageScanned(k, LifecyclePage)
  \/ \E k \in Scans : WsScanComplete(k)
  \/ \E k \in Scans, e \in ScanErrors : WsScanError(k, e)
  \/ \E k \in Scans : WsClose(k)
  \/ \E k \in Scans : SumTo(pollInFlight, StaleScans) < MaxInFlight /\ PollTick(k)
  \/ \E k \in Scans : PollCompleted(k)
  \/ \E k \in Scans : PollFailed(k)
  \/ \E k \in Scans : PollOther(k)
  \/ \E k \in Scans : RefreshOk(k)
  \/ \E k \in Scans : RefreshFail(k)
  \/ \E k \in Scans, p \in Plans : GenPlanOk(k, p)
  \/ \E k \in Scans : GenPlanFail(k)

NextScan == NextScanUpTo(MaxScans, MaxLive)

SpecScan == Init /\ [][NextScan]_vars

NextStale == NextScanUpTo(StaleScans, StaleLive)

SpecStale == Init /\ [][NextStale]_vars

(* ------------------- the progress reducer specification ----------------- *)
Tags == {"cart", "search"}

FeatureLists == {Absent, <<>>, <<"cart">>, <<"search", "cart">>, <<"cart", "cart">>}

PagePayloads ==
  [pages_scanned : 0..MaxCount, max_pages : {0}, links_found : 0..MaxCount,
   forms_found : {0, 1}, buttons_found : {0, 1}, features : FeatureLists,
   url : {""}]

LogPayloads == { [phase |-> "", message |-> "", level |-> ""],
                 [phase |-> "crawl", message |-> "visited", level |-> "warn"] }

NextProgress ==
  \/ starts < MaxScans /\ HandleStartScan
  \/ \E k \in Scans : /\ Cardinality({j \in Scans : st[j] = "created"}) < MaxLive
                       /\ StartScanOk(k)
  \/ \E k \in Scans : StartScanFail(k)
  \/ \E k \in Scans, d \in PagePayloads : WsPageScanned(k, d)
  \/ \E k \in Scans, d \in LogPayloads : WsScanLog(k, d)
  \/ \E k \in Scans, f \in Tags : WsFeatureDetected(k, f)

SpecProgress == Init /\ [][NextProgress]_vars

(* ------------------------- execution monitor ---------------------------- *)
\* page.tsx 198-204: handleComplete, the monitor's onComplete
handleComplete(passed) ==
  /\ phase' = "done"
  /\ testPassed' = passed
  /\ activeTest' = IF activeTest # NoTest
                     THEN [activeTest EXCEPT !.status = IF passed THEN "done" ELSE "failed"]
                     ELSE activeTest
  /\ UNCHANGED <<jobVars, uiLast, sideVars, scanValidationSummary>>

\* TestProgress.tsx 95-99, 112-116: Array.from({length: n}, ...) placeholders
Placeholders(n) == [i \in 1..n |-> [num |-> i, description |-> <<"Step", i>>, state |-> "pending"]]

\* TestProgress.tsx 124-128, 133-139, 145-151: prev.map over the step with
\* number n (the error and elapsedMs fields are display only and left out)
SetStepState(prev, n, state) ==
  [i \in 1..Len(prev) |-> IF prev[i].num = n THEN [prev[i] EXCEPT !.state = state] ELSE prev[i]]

\* TestProgress.tsx 144: the error message matches the timeout pattern
IsTimeout(e) == e \in {"Timed out", "step timed out"}

\* TestProgress.tsx 63-64: the message handler of a torn-down monitor returns
MonIgnore ==
  UNCHANGED <<ctlVars, monMounted, monStatus, testStarted, monSock, reconnectTimer,
              events, currentStep, totalSteps, steps, liveImage, stepLabel,
              readyCalls, connects>>

\* a message handler that logs a screenshot like any other event
MsgScreenshotLogged(evt) ==
  /\ monSock = "open"
  /\ evt.type = "screenshot"
  /\ IF ~monMounted THEN MonIgnore
     ELSE /\ liveImage' = IF evt.image # "" THEN evt.image ELSE liveImage
          /\ events' = Append(events, evt)
          /\ UNCHANGED <<ctlVars, monMounted, monStatus, testStarted, monSock,
                         reconnectTimer, currentStep, totalSteps, steps,
                         stepLabel, readyCalls, connects>>
  /\ UNCHANGED scanVars

\* TestProgress.tsx 68-71
MsgScreenshot(evt) ==
  /\ monSock = "open"
  /\ evt.type = "screenshot"
  /\ IF ~monMounted THEN MonIgnore
     ELSE /\ liveImage' = IF evt.image # "" THEN evt.image ELSE liveImage
          /\ UNCHANGED <<ctlVars, monMounted, monStatus, testStarted, monSock,
                         reconnectTimer, events, currentStep, totalSteps, steps,
                         stepLabel, readyCalls, connects>>
  /\ UNCHANGED scanVars

\* TestProgress.tsx 73-85
MsgTestStart(evt) ==
  /\ monSock = "open"
  /\ evt.type = "test_start"
  /\ IF ~monMounted THEN MonIgnore
     ELSE /\ events' = Append(events, evt)
          /\ testStarted' = TRUE
          /\ monStatus' = IF evt.phase = "generate" THEN "generating" ELSE "running"
          /\ stepLabel' = IF evt.phase = "generate" THEN "generatingScenarios"
                                                     ELSE "startingTest"
          /\ UNCHANGED <<ctlVars, monMounted, monSock, reconnectTimer, currentStep,
                         totalSteps, steps, liveImage, readyCalls, connects>>
  /\ UNCHANGED scanVars

\* TestProgress.tsx 73, 86-89: onScenariosReady is passed only by the
\* generating branch of the dashboard (page.tsx 1252-1256)
MsgScenariosReady(evt) ==
  /\ monSock = "open"
  /\ evt.type = "scenarios_ready"
  /\ IF ~monMounted THEN MonIgnore
     ELSE /\ events' = Append(events, evt)
          /\ stepLabel' = "scenariosReady"
          /\ readyCalls' = IF phase = "generating" THEN readyCalls + 1 ELSE readyCalls
          /\ UNCHANGED <<ctlVars, monMounted, monStatus, testStarted, monSock,
                         reconnectTimer, currentStep, totalSteps, steps, liveImage,
                         connects>>
  /\ UNCHANGED scanVars

\* TestProgress.tsx 73, 90-103
MsgScenariosGenerated(evt) ==
  /\ monSock = "open"
  /\ evt.type = "scenarios_generated"
  /\ IF ~monMounted THEN MonIgnore
     ELSE /\ events' = Append(events, evt)
          /\ totalSteps' = IF evt.steps_total # 0 THEN evt.steps_total ELSE totalSteps
          /\ steps' = IF evt.steps_total # 0 THEN Placeholders(evt.steps_total) ELSE steps
          /\ stepLabel' = "scenariosGenerated"
          /\ UNCHANGED <<ctlVars, monMounted, monStatus, testStarted, monSock,
                         reconnectTimer, currentStep, liveImage, readyCalls, connects>>
  /\ UNCHANGED scanVars

\* TestProgress.tsx 73, 104-130: totalSteps is read from the closure of the
\* effect, which runs once per testId and so always sees the initial 0
MsgStepStart(evt) ==
  /\ monSock = "open"
  /\ evt.type = "step_start"
  /\ IF ~monMounted THEN MonIgnore
     ELSE LET inited == IF evt.total # 0 /\ Len(steps) = 0
                          THEN Placeholders(evt.total) ELSE steps
          IN /\ events' = Append(events, evt)
             /\ currentStep' = IF evt.step # 0 THEN evt.step ELSE currentStep
             /\ totalSteps' = IF evt.total # 0 THEN evt.total ELSE totalSteps
             /\ stepLabel' = <<"Step", evt.step>>
             /\ steps' = [i \in 1..Len(inited) |->
                            IF inited[i].num = evt.step
                              THEN [inited[i] EXCEPT !.state = "running",
                                                     !.description = <<"Step", evt.step>>]
                              ELSE inited[i]]
             /\ UNCHANGED <<ctlVars, monMounted, monStatus, testStarted, monSock,
                            reconnectTimer, liveImage, readyCalls, connects>>
  /\ UNCHANGED scanVars

\* TestProgress.tsx 73, 131-141
MsgStepDone(evt) ==
  /\ monSock = "open"
  /\ evt.type = "step_done"
  /\ IF ~monMounted THEN MonIgnore
     ELSE /\ events' = Append(events, evt)
          /\ steps' = SetStepState(steps, evt.step, "passed")
          /\ UNCHANGED <<ctlVars, monMounted, monStatus, testStarted, monSock,
                         reconnectTimer, currentStep, totalSteps, liveImage,
                         stepLabel, readyCalls, connects>>
  /\ UNCHANGED scanVars

\* TestProgress.tsx 73, 142-153
MsgStepFail(evt) ==
  /\ monSock = "open"
  /\ evt.type = "step_fail"
  /\ IF ~monMounted THEN MonIgnore
     ELSE /\ events' = Append(events, evt)
          /\ steps' = SetStepState(steps, evt.step,
                                   IF IsTimeout(evt.error) THEN "timeout" ELSE "failed")
          /\ UNCHANGED <<ctlVars, monMounted, monStatus, testStarted, monSock,
                         reconnectTimer, currentStep, totalSteps, liveImage,
                         stepLabel, readyCalls, connects>>
  /\ UNCHANGED scanVars

\* TestProgress.tsx 73, 154-158
MsgTestComplete(evt) ==
  /\ monSock = "open"
  /\ evt.type = "test_complete"
  /\ IF ~monMounted THEN MonIgnore
     ELSE /\ events' = Append(events, evt)
          /\ monStatus' = IF evt.passed THEN "passed" ELSE "failed"
          /\ stepLabel' = IF evt.passed THEN "evtTestPassed" ELSE "evtTestFailed"
          /\ handleComplete(evt.passed)
          /\ UNCHANGED <<monMounted, testStarted, monSock, reconnectTimer,
                         currentStep, totalSteps, steps, liveImage, readyCalls,
                         connects>>
  /\ UNCHANGED scanVars

\* TestProgress.tsx 73, 159-163
MsgTestFail(evt) ==
  /\ monSock = "open"
  /\ evt.type = "test_fail"
  /\ IF ~monMounted THEN MonIgnore
     ELSE /\ events' = Append(events, evt)
          /\ monStatus' = "failed"
          /\ stepLabel' = "evtTestFailed"
          /\ handleComplete(FALSE)
          /\ UNCHANGED <<monMounted, testStarted, monSock, reconnectTimer,
                         currentStep, totalSteps, steps, liveImage, readyCalls,
                         connects>>
  /\ UNCHANGED scanVars

\* a close handler that does not ask whether the monitor is still mounted
MonCloseUnguarded ==
  /\ monSock \in {"open", "closing"}
  /\ monSock' = "closed"
  /\ IF ~testStarted
       THEN /\ monStatus' = "waiting"
            /\ stepLabel' = "waitingForRunner"
            /\ reconnectTimer' = reconnectTimer + 1
       ELSE /\ monStatus' = "failed"
            /\ UNCHANGED <<stepLabel, reconnectTimer>>
  /\ UNCHANGED <<ctlVars, monMounted, testStarted, events, currentStep, totalSteps,
                 steps, liveImage, readyCalls, connects>>
  /\ UNCHANGED scanVars

\* a close handler that schedules a reconnect whether or not the test started
MonCloseAlwaysRetry ==
  /\ monSock \in {"open", "closing"}
  /\ monSock' = "closed"
  /\ IF ~monMounted
       THEN UNCHANGED <<monStatus, stepLabel, reconnectTimer>>
       ELSE /\ monStatus' = "waiting"
            /\ stepLabel' = "waitingForRunner"
            /\ reconnectTimer' = reconnectTimer + 1
  /\ UNCHANGED <<ctlVars, monMounted, testStarted, events, currentStep, totalSteps,
                 steps, liveImage, readyCalls, connects>>
  /\ UNCHANGED scanVars

\* TestProgress.tsx 166-179: the socket's onclose
MonClose ==
  /\ monSock \in {"open", "closing"}
  /\ monSock' = "closed"
  /\ IF ~monMounted
       THEN UNCHANGED <<monStatus, stepLabel, reconnectTimer>>
       ELSE IF ~testStarted
              THEN /\ monStatus' = "waiting"
                   /\ stepLabel' = "waitingForRunner"
                   /\ reconnectTimer' = reconnectTimer + 1
              ELSE /\ monStatus' = "failed"
                   /\ UNCHANGED <<stepLabel, reconnectTimer>>
  /\ UNCHANGED <<ctlVars, monMounted, testStarted, events, currentStep, totalSteps,
                 steps, liveImage, readyCalls, connects>>
  /\ UNCHANGED scanVars

\* TestProgress.tsx 60-62, 172-174, 182: the reconnect timeout fires
ReconnectFire ==
  /\ reconnectTimer > 0
  /\ reconnectTimer' = reconnectTimer - 1
  /\ IF monMounted
       THEN monSock' = "open" /\ connects' = connects + 1
       ELSE UNCHANGED <<monSock, connects>>
  /\ UNCHANGED <<ctlVars, monMounted, monStatus, testStarted, events, currentStep,
                 totalSteps, steps, liveImage, stepLabel, readyCalls>>
  /\ UNCHANGED scanVars

\* TestProgress.tsx 187-191: the effect's cleanup
MonUnmount ==
  /\ monMounted
  /\ monMounted' = FALSE
  /\ reconnectTimer' = 0
  /\ monSock' = IF monSock = "open" THEN "closing" ELSE monSock
  /\ UNCHANGED <<ctlVars, monStatus, testStarted, events, currentStep, totalSteps,
                 steps, liveImage, stepLabel, readyCalls, connects>>
  /\ UNCHANGED scanVars



(* -------------------- the monitor specification ------------------------- *)
\* page.tsx 1278-1283, TestProgress.tsx 57-62, 185: a job is executing and
\* its TestProgress has just mounted and opened its socket
MonitorInit ==
  /\ ScanInit
  /\ phase = "executing"
  /\ activeTest = [id |-> 1, status |-> "queued"]
  /\ testPassed = FALSE
  /\ cancelling = FALSE
  /\ cancelClosure = NoTest
  /\ scanExecuting = FALSE
  /\ exec = NoExec
  /\ additionalYaml = ""
  /\ additionalConverting = FALSE
  /\ jobs = <<Job("converted")>>
  /\ cancelIssued = {}
  /\ uiLast = NoUi
  /\ SideInit
  /\ MonFresh
  /\ monMounted = TRUE
  /\ monSock = "open"
  /\ connects = 1

EvtOf(type) == [type |-> type, step |-> 0, total |-> 0, steps_total |-> 0,
                passed |-> FALSE, phase |-> "", error |-> "", image |-> ""]

MonEvents ==
  { [EvtOf("test_start") EXCEPT !.phase = ph] : ph \in {"generate", "execute"} }
  \cup { EvtOf("scenarios_ready") }
  \cup { [EvtOf("scenarios_generated") EXCEPT !.steps_total = n] : n \in {0, MaxSteps} }
  \cup { [EvtOf("step_start") EXCEPT !.step = n, !.total = MaxSteps] : n \in 1..MaxSteps }
  \cup { [EvtOf("step_done") EXCEPT !.step = n] : n \in 1..MaxSteps }
  \cup { [EvtOf("step_fail") EXCEPT !.step = 1, !.error = e] : e \in {"Timed out", "boom"} }
  \cup { [EvtOf("test_complete") EXCEPT !.passed = b] : b \in BOOLEAN }
  \cup { EvtOf("test_fail") }
  \cup { [EvtOf("screenshot") EXCEPT !.image = i] : i \in {"", "frame"} }

NextMonitor ==
  \/ \E evt \in MonEvents : MsgScreenshot(evt)
  \/ \E evt \in MonEvents : Len(events) < MaxEvents /\ MsgTestStart(evt)
  \/ \E evt \in MonEvents : Len(events) < MaxEvents /\ MsgScenariosReady(evt)
  \/ \E evt \in MonEvents : Len(events) < MaxEvents /\ MsgScenariosGenerated(evt)
  \/ \E evt \in MonEvents : Len(events) < MaxEvents /\ MsgStepStart(evt)
  \/ \E evt \in MonEvents : Len(events) < MaxEvents /\ MsgStepDone(evt)
  \/ \E evt \in MonEvents : Len(events) < MaxEvents /\ MsgStepFail(evt)
  \/ \E evt \in MonEvents : Len(events) < MaxEvents /\ MsgTestComplete(evt)
  \/ \E evt \in MonEvents : Len(events) < MaxEvents /\ MsgTestFail(evt)
  \/ MonClose
  \/ connects < MaxConnects /\ ReconnectFire
  \/ MonUnmount

SpecMonitor == MonitorInit /\ [][NextMonitor]_vars

(* ------------------------ scan lifecycle: claims ------------------------ *)
\* a socket message or a poll response of scan k is handled in this step
WsStep(k) ==
  \/ WsPageScanned(k, LifecyclePage)
  \/ WsScanComplete(k)
  \/ \E e \in ScanErrors : WsScanError(k, e)

PollStep(k) == PollCompleted(k) \/ PollFailed(k) \/ PollOther(k)

\* C1: for the scan started by the latest handleStartScan, however often and
\* from whichever source its completion is observed, triggerPlan issues the
\* refresh request, and with it the generate-plan request, at most once.
C1_TriggerAtMostOnce ==
  \A k \in Scans : k = starts => triggerCount[k] <= 1 /\ genRequests[k] <= 1

\* reached: both sources reported the completion of the one scan started, the
\* poll after its timer was cleared, and one request was issued
C1_Witness ==
  /\ starts = 1
  /\ completionSeen[1] = {"ws", "poll"}
  /\ ~pollTimer[1]
  /\ triggerCount[1] = 1

\* C2: plan generation fires at most once per scan, also when another scan
\* is started in between.
C2_OncePerScan == \A k \in Scans : triggerCount[k] <= 1

\* C3: once a scan's completion was observed and no refresh of triggerPlan
\* is pending any more, exactly one generate-plan request was issued for it.
C3_ExactlyOnePlanRequest ==
  \A k \in Scans :
    (completionSeen[k] # {} /\ refreshInFlight[k] = 0) => genRequests[k] = 1

\* C4: once a later scan has been created, no socket message and no poll
\* response of an earlier scan changes the scan-side state.
C4_OnlyOwnSources ==
  [][\A k \in Scans :
       ((\E b \in Scans : b > k /\ st[b] = "created") /\ (WsStep(k) \/ PollStep(k)))
         => UNCHANGED <<scanProgress, scanLogs, activeScan, scanPhase, error,
                        planTriggered>>]_vars

\* C5: after a scan_error event or a polled 'failed' the scan has left the
\* scanning state with the error recorded, and from then on no poll request
\* of that scan is issued and no socket message of it is handled.
C5_FailureStopsSources ==
  [][\A k \in Scans :
       /\ ((\E e \in ScanErrors : WsScanError(k, e)) \/ PollFailed(k))
            => (scanPhase' # "scanning" /\ error' # "")
       /\ failSeen[k] => ~(PollTick(k) \/ WsStep(k))]_vars

\* C6: once the scan phase is plan or ready, no scan_error event and no
\* polled 'failed' moves it back to idle.
C6_CompletionSticky ==
  [][(/\ scanPhase \in {"plan", "ready"}
      /\ \E k \in Scans : (\E e \in ScanErrors : WsScanError(k, e)) \/ PollFailed(k))
       => scanPhase' # "idle"]_vars

\* C7: the close of a scan's socket changes neither the scan phase nor the
\* error nor the poll timer; a polled 'completed' of a scan whose socket is
\* closed fires the trigger when no completion was handled before; and with
\* no start pending only a scan_error event or a polled 'failed' takes the
\* scan phase from scanning to idle.
C7_CloseIsNotFailure ==
  [][\A k \in Scans :
       /\ WsClose(k)
            => (scanPhase' = scanPhase /\ error' = error /\ pollTimer' = pollTimer)
       /\ (/\ ws[k] = "closed"
           /\ \A j \in Scans : completionSeen[j] = {}
           /\ PollCompleted(k))
            => (triggerCount'[k] = 1 /\ refreshInFlight'[k] = 1)
       /\ (/\ scanPhase = "scanning"
           /\ scanPhase' = "idle"
           /\ \A j \in Scans : st[j] # "pending")
            => \E j \in Scans : (\E e \in ScanErrors : WsScanError(j, e)) \/ PollFailed(j)]_vars

\* reached: the socket closed while scanning, the poll then saw the
\* completion and the plan was requested
C7_Witness ==
  /\ ws[1] = "closed"
  /\ completionSeen[1] = {"poll"}
  /\ genRequests[1] = 1
  /\ scanPhase = "ready"
  /\ error = ""

(* ----------------------- progress reducer: claims ----------------------- *)
\* the tags of a feature list
TagSet(fs) == { fs[i] : i \in 1..Len(fs) }

NoDuplicate(fs) == \A i, j \in 1..Len(fs) : fs[i] = fs[j] => i = j

\* C8: every page_scanned event leaves each of the counters pages, links,
\* forms and buttons greater than or equal to its value before the event.
C8_CountersMonotone ==
  [][\A k \in Scans, d \in PagePayloads :
       WsPageScanned(k, d)
         => /\ scanProgress'.pages >= scanProgress.pages
            /\ scanProgress'.links >= scanProgress.links
            /\ scanProgress'.forms >= scanProgress.forms
            /\ scanProgress'.buttons >= scanProgress.buttons]_vars

\* C9: after a page_scanned or feature_detected event every tag present
\* before the event is still present and the tag list holds no duplicate.
C9_FeaturesUnion ==
  [][\A k \in Scans :
       ((\E d \in PagePayloads : WsPageScanned(k, d))
          \/ (\E f \in Tags : WsFeatureDetected(k, f)))
         => /\ TagSet(scanProgress.features) \subseteq TagSet(scanProgress'.features)
            /\ NoDuplicate(scanProgress'.features)]_vars

(* ------------------------- execution monitor: claims -------------------- *)
\* C10: a mounted monitor whose socket has closed is waiting with one
\* reconnect armed when no test_start was observed, and failed with no
\* reconnect armed when a test_start was observed.
C10_CloseOutcome ==
  (monMounted /\ monSock = "closed")
    => IF testStarted
         THEN monStatus = "failed" /\ reconnectTimer = 0
         ELSE monStatus = "waiting" /\ reconnectTimer = 1

\* reached: a first close before any test_start led to a reconnect, the
\* test then started and the second close ended the monitor as failed
C10_Witness ==
  /\ monMounted
  /\ connects = 2
  /\ testStarted
  /\ monSock = "closed"
  /\ monStatus = "failed"
  /\ reconnectTimer = 0

(* --------------------- execution failure: claims ------------------------ *)
\* C11: a terminal execution failure always reaches the controller: whenever
\* the mounted monitor has ended as failed (a test_fail or failing
\* test_complete event, or a socket close after test_start), the
\* controller's phase is done and the result is marked failed
C11_FailureReachesController ==
  (monMounted /\ monStatus = "failed") =>
    (phase = "done" /\ testPassed = FALSE /\ activeTest.status = "failed")

(* ------------------------ plan selection handlers ----------------------- *)
\* page.tsx 861, 941: the plan panel is rendered
PlanShown ==
  /\ scanPhase = "ready" \/ (scanPhase = "plan" /\ ~planLoading)
  /\ activeScan # NoScan
  /\ Len(planCategories) > 0

\* page.tsx 355: cat.tests.map((t) => t.id)
TestIds(cat) == { cat.tests[j].id : j \in 1..Len(cat.tests) }

\* a category toggle that flips every item of the category on its own
ToggleCategoryEachItem(selected, cat) ==
  (selected \ TestIds(cat)) \cup (TestIds(cat) \ selected)

\* page.tsx 355-364: the selection handleToggleCategory leaves
ToggleCategorySelection(selected, cat) ==
  IF TestIds(cat) \subseteq selected
    THEN selected \ TestIds(cat)
    ELSE selected \cup TestIds(cat)

\* what a plan-selection handler leaves alone
PlanFrame ==
  UNCHANGED <<scanPhase, error, planTriggered, activeScan, scanProgress, scanLogs,
              planCategories, planLoading, starts, st, remote, ws, pollTimer,
              pollInFlight, refreshInFlight, genInFlight, triggerCount,
              genRequests, completionSeen, failSeen,
              phase, activeTest, testPassed, jobVars, sideVars,
              scanValidationSummary, monVars>>

\* page.tsx 345-352, 1026-1030: the checkbox of a test of an expanded category
HandleToggleTest(i, j) ==
  /\ PlanShown
  /\ i \in 1..Len(planCategories)
  /\ j \in 1..Len(planCategories[i].tests)
  /\ planCategories[i].id \in expandedCats
  /\ LET id == planCategories[i].tests[j].id
     IN selectedTests' = IF id \in selectedTests THEN selectedTests \ {id}
                                                  ELSE selectedTests \cup {id}
  /\ uiLast' = [op |-> "toggleTest", target |-> "", before |-> {}]
  /\ UNCHANGED <<expandedCats, authData, testData>>
  /\ PlanFrame

\* page.tsx 354-365, 968-976: the select-all checkbox of a category
HandleToggleCategory(i) ==
  /\ PlanShown
  /\ i \in 1..Len(planCategories)
  /\ selectedTests' = ToggleCategorySelection(selectedTests, planCategories[i])
  /\ uiLast' = [op |-> "toggleCategory", target |-> planCategories[i].id,
                before |-> selectedTests \cap TestIds(planCategories[i])]
  /\ UNCHANGED <<expandedCats, authData, testData>>
  /\ PlanFrame

\* page.tsx 367-374, 954-957: the header of a category
HandleToggleExpand(i) ==
  /\ PlanShown
  /\ i \in 1..Len(planCategories)
  /\ LET id == planCategories[i].id
     IN expandedCats' = IF id \in expandedCats THEN expandedCats \ {id}
                                                ELSE expandedCats \cup {id}
  /\ uiLast' = [op |-> "toggleExpand", target |-> "", before |-> {}]
  /\ UNCHANGED <<selectedTests, authData, testData>>
  /\ PlanFrame

\* page.tsx 983: a selected test of the category requires authentication
HasAnySelectedAuth(cat) ==
  \E j \in 1..Len(cat.tests) :
    cat.tests[j].id \in selectedTests /\ cat.tests[j].requires_auth

\* page.tsx 982-996: the keys of the category's shared authentication block
\* (the fixture's tests carry no auth_fields of their own)
SharedAuthKeys(cat) == IF HasAnySelectedAuth(cat) THEN {"email", "password"} ELSE {}

\* page.tsx 1056-1064: typing into a test-data input of a selected test
SetTestData(i, j, f, value) ==
  /\ PlanShown
  /\ i \in 1..Len(planCategories)
  /\ j \in 1..Len(planCategories[i].tests)
  /\ planCategories[i].id \in expandedCats
  /\ planCategories[i].tests[j].id \in selectedTests
  /\ f \in 1..Len(planCategories[i].tests[j].test_data_fields)
  /\ testData' = PutField(testData, planCategories[i].tests[j].test_data_fields[f], value)
  /\ uiLast' = [op |-> "setTestData", target |-> planCategories[i].tests[j].id,
                before |-> {}]
  /\ UNCHANGED <<selectedTests, expandedCats, authData>>
  /\ PlanFrame

\* page.tsx 1001-1016: typing into an input of the shared authentication block
SetAuthData(i, key, value) ==
  /\ PlanShown
  /\ i \in 1..Len(planCategories)
  /\ planCategories[i].id \in expandedCats
  /\ key \in SharedAuthKeys(planCategories[i])
  /\ authData' = PutField(authData, key, value)
  /\ uiLast' = [op |-> "setAuthData", target |-> planCategories[i].id, before |-> {}]
  /\ UNCHANGED <<selectedTests, expandedCats, testData>>
  /\ PlanFrame

(* -------------------- the plan selection specification ------------------ *)
\* page.tsx 241-244, 312-317: scan 1 completed, its refresh resolved and the
\* generate-plan request is awaiting its response
PlanInit ==
  /\ scanPhase = "plan"
  /\ error = ""
  /\ planTriggered = TRUE
  /\ activeScan = [id |-> 1, status |-> "completed"]
  /\ scanProgress = InitProgress
  /\ scanLogs = <<>>
  /\ planCategories = <<>>
  /\ selectedTests = {}
  /\ expandedCats = {}
  /\ authData = NoFields
  /\ testData = NoFields
  /\ planLoading = TRUE
  /\ starts = 1
  /\ st = [k \in Scans |-> IF k = 1 THEN "created" ELSE "none"]
  /\ remote = [k \in Scans |-> IF k = 1 THEN "completed" ELSE "none"]
  /\ ws = [k \in Scans |-> IF k = 1 THEN "open" ELSE "none"]
  /\ pollTimer = [k \in Scans |-> k = 1]
  /\ pollInFlight = [k \in Scans |-> 0]
  /\ refreshInFlight = [k \in Scans |-> 0]
  /\ genInFlight = [k \in Scans |-> IF k = 1 THEN 1 ELSE 0]
  /\ triggerCount = [k \in Scans |-> IF k = 1 THEN 1 ELSE 0]
  /\ genRequests = [k \in Scans |-> IF k = 1 THEN 1 ELSE 0]
  /\ completionSeen = [k \in Scans |-> IF k = 1 THEN {"ws"} ELSE {}]
  /\ failSeen = [k \in Scans |-> FALSE]
  /\ CtlInit
  /\ MonAbsent

\* the texts typed into the inputs
FieldTexts == {"", "a"}

\* the (category, test) positions of a plan
PlanTests(cats) ==
  UNION { { <<i, j>> : j \in 1..Len(cats[i].tests) } : i \in 1..Len(cats) }

NextPlan ==
  \/ \E plan \in Plans : GenPlanOk(1, plan)
  \/ GenPlanFail(1)
  \/ \E p \in PlanTests(planCategories) : HandleToggleTest(p[1], p[2])
  \/ \E i \in 1..Len(planCategories) : HandleToggleCategory(i)
  \/ \E i \in 1..Len(planCategories) : HandleToggleExpand(i)
  \/ \E p \in PlanTests(planCategories), v \in FieldTexts :
       SetTestData(p[1], p[2], 1, v)
  \/ \E i \in 1..Len(planCategories), key \in {"email", "password"}, v \in FieldTexts :
       SetAuthData(i, key, v)

SpecPlan == PlanInit /\ [][NextPlan]_vars

(* ------------------------ plan selection: claims ------------------------ *)
\* the ids of the items of a plan whose default-selected flag is true
DefaultSelected(cats) ==
  UNION { { cats[i].tests[j].id :
              j \in { n \in 1..Len(cats[i].tests) : cats[i].tests[n].selected = TRUE } }
          : i \in 1..Len(cats) }

\* C16: at the step that loads a plan, the selected set becomes exactly the
\* items whose default-selected flag is true, in every category whatever the
\* category's own flag, and the expanded set becomes exactly the categories
\* flagged auto-selected
C16_SelectionSeededFromItems ==
  [][\A plan \in Plans :
       GenPlanOk(1, plan) =>
         /\ selectedTests' = DefaultSelected(plan)
         /\ expandedCats' = { plan[i].id : i \in { n \in 1..Len(plan) : plan[n].auto_selected } }]_vars

\* C17: toggling a category whose items are all selected unselects them all;
\* in every other case it selects them all; items outside the category keep
\* their selection
C17_ToggleCategory ==
  [][\A i \in 1..Len(planCategories) :
       HandleToggleCategory(i) =>
         LET ids == TestIds(planCategories[i])
         IN /\ (ids \subseteq selectedTests) => (selectedTests' \cap ids = {})
            /\ ~(ids \subseteq selectedTests) => (ids \subseteq selectedTests')
            /\ selectedTests' \ ids = selectedTests \ ids]_vars

\* reached: the category with items {selected, selected, unselected} was
\* toggled and now has all three selected
C17_Witness ==
  /\ uiLast.op = "toggleCategory"
  /\ uiLast.target = "checkout"
  /\ uiLast.before = {"c1", "c2"}
  /\ {"c1", "c2", "c3"} \subseteq selectedTests

\* C18: setting a test-data field value for one test leaves the value shown
\* (and submitted) for every field of every other test unchanged
C18_TestDataScopedPerTest ==
  [][\A p \in PlanTests(planCategories), v \in FieldTexts :
       SetTestData(p[1], p[2], 1, v) =>
         \A q \in PlanTests(planCategories) \ {p} :
           \A f \in 1..Len(planCategories[q[1]].tests[q[2]].test_data_fields) :
             LET key == planCategories[q[1]].tests[q[2]].test_data_fields[f]
             IN FieldValue(testData', key) = FieldValue(testData, key)]_vars

(* ------------------------- job control handlers ------------------------- *)
\* the scan-side state the job handlers never assign
ScanRest == <<planTriggered, activeScan, scanProgress, scanLogs, planCategories,
              selectedTests, expandedCats, authData, testData, planLoading, starts,
              st, remote, ws, pollTimer, pollInFlight, refreshInFlight, genInFlight,
              triggerCount, genRequests, completionSeen, failSeen>>

\* page.tsx 137-145, 1083-1100: handleGenerateAdditional up to its await
HandleGenerateAdditional ==
  /\ PlanShown
  /\ scanPhase = "ready"
  /\ ~additionalConverting
  /\ ~IsBusy
  /\ error' = ""
  /\ additionalConverting' = TRUE
  /\ additionalYaml' = ""
  /\ UNCHANGED <<scanPhase, ScanRest, phase, activeTest, testPassed, cancelling,
                 cancelClosure, scanExecuting, exec, jobs, cancelIssued, uiLast,
                 sideVars, scanValidationSummary, monVars>>

\* page.tsx 145-150, 154-156: convertScenario resolved
GenAdditionalOk(yaml) ==
  /\ additionalConverting
  /\ additionalYaml' = yaml
  /\ additionalConverting' = FALSE
  /\ UNCHANGED <<scanPhase, error, ScanRest, phase, activeTest, testPassed,
                 cancelling, cancelClosure, scanExecuting, exec, jobs, cancelIssued,
                 uiLast, sideVars, scanValidationSummary, monVars>>

\* page.tsx 151-156: convertScenario rejected
GenAdditionalFail ==
  /\ additionalConverting
  /\ error' = "Generation failed"
  /\ additionalConverting' = FALSE
  /\ UNCHANGED <<scanPhase, ScanRest, phase, activeTest, testPassed, cancelling,
                 cancelClosure, scanExecuting, exec, additionalYaml, jobs,
                 cancelIssued, uiLast, sideVars, scanValidationSummary, monVars>>

\* api.ts 434-453: the document the remote service composes for a selection
PlanDocument(selected) == "plan"

\* a merge that joins the two documents without the line break
MergeYamlNoBreak(planYaml, extraYaml) == planYaml \o extraYaml

\* page.tsx 402: result.scenario_yaml + "\n" + additionalYaml
MergeYaml(planYaml, extraYaml) == planYaml \o "\n" \o extraYaml

\* page.tsx 376-397, 411-416, 1157-1160: handleExecuteScan up to its first
\* await; the closure keeps the additionalYaml of this render
HandleExecuteScan ==
  /\ PlanShown
  /\ activeScan # NoScan
  /\ ~(selectedTests = {} /\ additionalYaml = "")
  /\ ~scanExecuting
  /\ ~IsBusy
  /\ error' = ""
  /\ scanExecuting' = TRUE
  /\ scanValidationSummary' = NoSummary
  /\ exec' = [pc |-> IF selectedTests = {} THEN "only"
                     ELSE IF additionalYaml # "" THEN "bothExec" ELSE "normExec",
              plan |-> 0, merged |-> 0, yaml |-> additionalYaml,
              doc |-> IF selectedTests = {} THEN additionalYaml ELSE ""]
  /\ UNCHANGED <<scanPhase, ScanRest, phase, activeTest, testPassed, cancelling,
                 cancelClosure, additionalYaml, additionalConverting, jobs,
                 cancelIssued, uiLast, sideVars, monVars>>

\* page.tsx 387-389, 406-408, 420-422, 427-429: the tail every successful
\* branch shares
ExecFinish(id) ==
  /\ activeTest' = [id |-> id, status |-> "queued"]
  /\ phase' = "executing"
  /\ scanPhase' = "executing"
  /\ scanExecuting' = FALSE
  /\ exec' = NoExec

\* page.tsx 386-389: createTest of the additional document resolved
ExecOnlyOk ==
  /\ exec.pc = "only"
  /\ jobs' = Append(jobs, Job(exec.doc))
  /\ ExecFinish(Len(jobs) + 1)
  /\ UNCHANGED <<error, ScanRest, testPassed, cancelling, cancelClosure,
                 additionalYaml, additionalConverting, cancelIssued, uiLast,
                 sideVars, scanValidationSummary, monVars>>

\* page.tsx 392-403: executeScanTests resolved in the branch with both
\* sources; the remote service has created the plan-only job, and the merged
\* document is submitted
ExecBothScanOk(summary) ==
  /\ exec.pc = "bothExec"
  /\ scanValidationSummary' = OrElseSummary(summary)
  /\ jobs' = Append(jobs, Job(PlanDocument(selectedTests)))
  /\ exec' = [exec EXCEPT !.pc = "bothCreate", !.plan = Len(jobs) + 1,
                          !.doc = MergeYaml(PlanDocument(selectedTests), exec.yaml)]
  /\ UNCHANGED <<scanPhase, error, ScanRest, phase, activeTest, testPassed,
                 cancelling, cancelClosure, scanExecuting, additionalYaml,
                 additionalConverting, cancelIssued, uiLast, sideVars, monVars>>

\* page.tsx 403-405: createTest of the merged document resolved; the cancel
\* of the plan-only job is requested
ExecMergedOk ==
  /\ exec.pc = "bothCreate"
  /\ jobs' = Append(jobs, Job(exec.doc))
  /\ cancelIssued' = cancelIssued \cup {exec.plan}
  /\ exec' = [exec EXCEPT !.pc = "bothCancel", !.merged = Len(jobs) + 1]
  /\ UNCHANGED <<scanPhase, error, ScanRest, phase, activeTest, testPassed,
                 cancelling, cancelClosure, scanExecuting, additionalYaml,
                 additionalConverting, uiLast, sideVars, scanValidationSummary, monVars>>

\* page.tsx 405-408, api.ts 201-210: the cancel of the plan-only job resolved
ExecCancelOk ==
  /\ exec.pc = "bothCancel"
  /\ jobs' = [jobs EXCEPT ![exec.plan].cancelled = TRUE]
  /\ ExecFinish(exec.merged)
  /\ UNCHANGED <<error, ScanRest, testPassed, cancelling, cancelClosure,
                 additionalYaml, additionalConverting, cancelIssued, uiLast,
                 sideVars, scanValidationSummary, monVars>>

\* page.tsx 405-408: the cancel of the plan-only job was rejected; the
\* rejection is swallowed by catch(() => {})
ExecCancelFail ==
  /\ exec.pc = "bothCancel"
  /\ ExecFinish(exec.merged)
  /\ UNCHANGED <<error, ScanRest, testPassed, cancelling, cancelClosure,
                 additionalYaml, additionalConverting, jobs, cancelIssued, uiLast,
                 sideVars, scanValidationSummary, monVars>>

\* page.tsx 411-419: executeScanTests resolved in the plan-only branch; the
\* job is fetched
ExecNormScanOk(summary) ==
  /\ exec.pc = "normExec"
  /\ scanValidationSummary' = OrElseSummary(summary)
  /\ jobs' = Append(jobs, Job(PlanDocument(selectedTests)))
  /\ exec' = [exec EXCEPT !.pc = "normGet", !.plan = Len(jobs) + 1]
  /\ UNCHANGED <<scanPhase, error, ScanRest, phase, activeTest, testPassed,
                 cancelling, cancelClosure, scanExecuting, additionalYaml,
                 additionalConverting, cancelIssued, uiLast, sideVars, monVars>>

\* page.tsx 419-422: getTest resolved
ExecNormGetOk ==
  /\ exec.pc = "normGet"
  /\ ExecFinish(exec.plan)
  /\ UNCHANGED <<error, ScanRest, testPassed, cancelling, cancelClosure,
                 additionalYaml, additionalConverting, jobs, cancelIssued, uiLast,
                 sideVars, scanValidationSummary, monVars>>

\* page.tsx 424-429: createTest, executeScanTests or getTest rejected (a
\* rejected call has created no job)
ExecFail ==
  /\ exec.pc \in {"only", "bothExec", "bothCreate", "normExec", "normGet"}
  /\ error' = "Failed to execute"
  /\ scanExecuting' = FALSE
  /\ exec' = NoExec
  /\ UNCHANGED <<scanPhase, ScanRest, phase, activeTest, testPassed, cancelling,
                 cancelClosure, additionalYaml, additionalConverting, jobs,
                 cancelIssued, uiLast, sideVars, scanValidationSummary, monVars>>

\* page.tsx 1250, 1278: a TestProgress with the Cancel button is rendered
MonitorShown == activeTest # NoTest /\ phase \in {"generating", "executing"}

\* page.tsx 206-210, 1257-1263, 1284-1290: handleCancel up to its await
HandleCancel ==
  /\ MonitorShown
  /\ ~cancelling
  /\ cancelling' = TRUE
  /\ cancelClosure' = activeTest
  /\ cancelIssued' = cancelIssued \cup {activeTest.id}
  /\ UNCHANGED <<scanPhase, error, ScanRest, phase, activeTest, testPassed,
                 scanExecuting, exec, additionalYaml, additionalConverting, jobs,
                 uiLast, sideVars, scanValidationSummary, monVars>>

\* page.tsx 210-213, 217-219: cancelTest resolved
CancelOk ==
  /\ cancelClosure # NoTest
  /\ jobs' = [jobs EXCEPT ![cancelClosure.id].cancelled = TRUE]
  /\ activeTest' = [cancelClosure EXCEPT !.status = "failed"]
  /\ phase' = "done"
  /\ testPassed' = FALSE
  /\ cancelling' = FALSE
  /\ cancelClosure' = NoTest
  /\ UNCHANGED <<scanPhase, error, ScanRest, scanExecuting, exec, additionalYaml,
                 additionalConverting, cancelIssued, uiLast, sideVars, scanValidationSummary, monVars>>

\* page.tsx 214-219: cancelTest rejected
CancelFail ==
  /\ cancelClosure # NoTest
  /\ error' = "Failed to cancel test"
  /\ cancelling' = FALSE
  /\ cancelClosure' = NoTest
  /\ UNCHANGED <<scanPhase, ScanRest, phase, activeTest, testPassed, scanExecuting,
                 exec, additionalYaml, additionalConverting, jobs, cancelIssued,
                 uiLast, sideVars, scanValidationSummary, monVars>>

\* page.tsx 1250-1256, 1278-1283, TestProgress.tsx 41-62, 185: the commit of
\* a render that shows a job mounts its TestProgress, which connects
PageMount ==
  /\ MonitorShown
  /\ ~monMounted
  /\ monMounted' = TRUE
  /\ monStatus' = "connecting"
  /\ testStarted' = FALSE
  /\ monSock' = "open"
  /\ reconnectTimer' = 0
  /\ events' = <<>>
  /\ currentStep' = 0
  /\ totalSteps' = 0
  /\ steps' = <<>>
  /\ liveImage' = ""
  /\ stepLabel' = ""
  /\ readyCalls' = 0
  /\ connects' = 1
  /\ UNCHANGED <<scanVars, ctlVars>>

\* page.tsx 1250, 1278, TestProgress.tsx 187-191: the commit of a render that
\* no longer shows the job runs the cleanup of its TestProgress
PageUnmount ==
  /\ ~MonitorShown
  /\ MonUnmount

\* the monitor on screen is the one the last render asked for
Rendered == monMounted <=> MonitorShown

(* --------------------- the job control specification -------------------- *)
\* execution jobs the remote service creates in the explored runs
MaxJobs == 3

\* the validation summary the remote service returns in the explored runs
ControlSummary == ValidationSummaryOf(1, 2)

ControlEvents ==
  { [EvtOf("test_start") EXCEPT !.phase = "execute"], EvtOf("test_fail") }
  \cup { [EvtOf("test_complete") EXCEPT !.passed = b] : b \in BOOLEAN }

\* a render is committed before the next event is handled
NextControl ==
  \/ ~Rendered /\ PageMount
  \/ ~Rendered /\ PageUnmount
  \/ \E plan \in Plans : GenPlanOk(1, plan)
  \/ \E i \in 1..Len(planCategories) : HandleToggleCategory(i)
  \/ HandleGenerateAdditional
  \/ GenAdditionalOk("extra")
  \/ GenAdditionalFail
  \/ Len(jobs) + 2 <= MaxJobs /\ HandleExecuteScan
  \/ ExecOnlyOk
  \/ ExecBothScanOk(ControlSummary)
  \/ ExecMergedOk
  \/ ExecCancelOk
  \/ ExecCancelFail
  \/ ExecNormScanOk(ControlSummary)
  \/ ExecNormGetOk
  \/ ExecFail
  \/ Rendered /\ HandleCancel
  \/ Rendered /\ CancelOk
  \/ Rendered /\ CancelFail
  \/ \E evt \in ControlEvents : Rendered /\ Len(events) < MaxEvents /\ MsgTestStart(evt)
  \/ \E evt \in ControlEvents : Rendered /\ Len(events) < MaxEvents /\ MsgTestComplete(evt)
  \/ \E evt \in ControlEvents : Rendered /\ Len(events) < MaxEvents /\ MsgTestFail(evt)
  \/ Rendered /\ MonClose
  \/ Rendered /\ connects < MaxConnects /\ ReconnectFire

SpecControl == PlanInit /\ [][NextControl]_vars

(* -------------------------- job control: claims ------------------------- *)
\* C12: cancelling the active job always ends the local workflow: at the
\* step in which the cancel call resolves, successfully or with a rejection,
\* the phase becomes done and the job is marked failed
C12_CancelAlwaysTerminal ==
  [][(CancelOk \/ CancelFail) =>
       /\ phase' = "done"
       /\ testPassed' = FALSE
       /\ activeTest'.status = "failed"]_vars

\* C13: from the step in which handleCancel is invoked on the active job, the
\* phase is done and stays done, whatever arrives while or after the cancel
\* request is in flight
C13_CancelImmediatelyTerminal ==
  (activeTest # NoTest /\ activeTest.id \in cancelIssued) => phase = "done"

\* C14: when the branch with both a plan selection and an additional document
\* has run to its end, the merged job's document is
\* planDocument + "\n" + additionalDocument, a cancel request was issued
\* against the plan-only job, and the merged job is the active job
C14_MergedRun ==
  [][(ExecCancelOk \/ ExecCancelFail) =>
       /\ jobs'[exec.merged].doc = jobs[exec.plan].doc \o "\n" \o exec.yaml
       /\ exec.yaml # ""
       /\ exec.plan # exec.merged
       /\ exec.plan \in cancelIssued'
       /\ activeTest'.id = exec.merged
       /\ phase' = "executing"]_vars

\* reached: the merged run ended with the plan-only job 1 cancelled and the
\* merged job 2 active
C14_Witness ==
  /\ Len(jobs) = 2
  /\ jobs[1] = [doc |-> "plan", cancelled |-> TRUE]
  /\ jobs[2] = [doc |-> "plan\nextra", cancelled |-> FALSE]
  /\ cancelIssued = {1}
  /\ activeTest = [id |-> 2, status |-> "queued"]
  /\ phase = "executing"
  /\ exec = NoExec

\* C15: when handleExecuteScan returns from the branch with both sources
\* (every call succeeded, the merged job could not be created, or the cancel
\* was rejected), at most one job this run created is left uncancelled, and a
\* job left uncancelled is the active job
C15_OneAuthoritativeJob ==
  [][(ExecCancelOk \/ ExecCancelFail \/ (ExecFail /\ exec.pc \in {"bothExec", "bothCreate"})) =>
       LET created == {exec.plan, exec.merged} \ {0}
           left == { j \in created : ~jobs'[j].cancelled }
       IN /\ Cardinality(left) <= 1
          /\ \A j \in left : activeTest'.id = j]_vars

(* ---------------------- the step tracking specification ----------------- *)
\* TestProgress.tsx 201-202: Math.round((currentStep / totalSteps) * 100)
ProgressPercent ==
  IF totalSteps > 0 THEN (200 * currentStep + totalSteps) \div (2 * totalSteps) ELSE 0

\* step events as the socket may deliver them, step numbers outside
\* 1..total included
StepEvents ==
  { [EvtOf("scenarios_generated") EXCEPT !.steps_total = n] : n \in {0, MaxSteps} }
  \cup { [EvtOf("step_start") EXCEPT !.step = n, !.total = t] :
           n \in 0..(MaxSteps + 1), t \in {0, MaxSteps} }
  \cup { [EvtOf("step_done") EXCEPT !.step = n] : n \in 1..(MaxSteps + 1) }
  \cup { [EvtOf("step_fail") EXCEPT !.step = n, !.error = e] :
           n \in 1..MaxSteps, e \in {"Timed out", "boom"} }

NextSteps ==
  \/ \E evt \in StepEvents : Len(events) < MaxEvents /\ MsgScenariosGenerated(evt)
  \/ \E evt \in StepEvents : Len(events) < MaxEvents /\ MsgStepStart(evt)
  \/ \E evt \in StepEvents : Len(events) < MaxEvents /\ MsgStepDone(evt)
  \/ \E evt \in StepEvents : Len(events) < MaxEvents /\ MsgStepFail(evt)

SpecSteps == MonitorInit /\ [][NextSteps]_vars

(* ------------------------- step tracking: claims ------------------------ *)
\* C19: a step becomes running only on its own step_start, and once a step
\* is passed, failed or timeout no later step_start, step_done or step_fail
\* event changes its state
C19_StepStatesFinal ==
  [][\A evt \in StepEvents :
       (MsgStepStart(evt) \/ MsgStepDone(evt) \/ MsgStepFail(evt)) =>
         \A i \in 1..Len(steps) :
           /\ Len(steps') = Len(steps)
           /\ steps[i].state \in {"passed", "failed", "timeout"}
                => steps'[i].state = steps[i].state
           /\ (steps'[i].state = "running" /\ steps[i].state # "running")
                => (evt.type = "step_start" /\ evt.step = steps[i].num)]_vars

\* C20: whenever a total is known the step counter does not exceed it, so
\* the progress is never above 100%
C20_StepWithinTotal ==
  totalSteps > 0 => (currentStep <= totalSteps /\ ProgressPercent <= 100)

(* ----------------------- execution monitor: claims ---------------------- *)
\* C21: when the reconnect delay of the waiting state elapses and the
\* reconnect is attempted, the monitor re-enters connecting.
C21_ReconnectReentersConnecting ==
  [][(ReconnectFire /\ monMounted) => monStatus' = "connecting"]_vars

\* TestProgress.tsx 346: the width of the progress bar
BarWidth ==
  IF monStatus \in {"passed", "failed"} THEN 100
  ELSE IF monStatus \in {"connecting", "waiting"} THEN 5
  ELSE ProgressPercent

\* C22: the progress percentage the monitor shows reads 100 in every terminal
\* state (passed or failed).
C22_ProgressPinnedWhenTerminal ==
  (monMounted /\ monStatus \in {"passed", "failed"}) => ProgressPercent = 100

\* the screenshot events of the protocol
Frames == { evt \in MonEvents : evt.type = "screenshot" }

\* a screenshot that carries a new image is handled: the only step that
\* changes the frame
FrameStep == liveImage' # liveImage

\* a mounted monitor handles a message that is no screenshot: the only steps
\* that keep its socket open and its frame
LoggedStep ==
  /\ monMounted /\ monMounted'
  /\ monSock = "open" /\ monSock' = "open"
  /\ connects' = connects
  /\ liveImage' = liveImage

\* C27: a screenshot event changes only the latest-frame value (the event
\* log, the status, the step counters and the per-step states are unchanged by
\* it), while every non-screenshot event a mounted monitor receives is
\* appended to the event log in delivery order.
C27_ScreenshotOnlyLatestFrame ==
  [][/\ FrameStep =>
          UNCHANGED <<events, monStatus, testStarted, currentStep, totalSteps,
                      steps, stepLabel, readyCalls, ctlVars>>
     /\ LoggedStep =>
          /\ Len(events') = Len(events) + 1
          /\ SubSeq(events', 1, Len(events)) = events
          /\ events'[Len(events')] \in MonEvents \ Frames]_vars

\* a frame has been received between two logged events
C27_Witness ==
  /\ liveImage = "frame"
  /\ Len(events) = 2
  /\ events[1].type = "test_start"
  /\ events[2].type = "step_start"

\* C28: after test_complete or test_fail has set the status to passed or
\* failed, a later close of the socket changes nothing: the status stays and no
\* reconnect is scheduled.
C28_TerminalAbsorbing ==
  [][(MonClose /\ monMounted /\ monStatus \in {"passed", "failed"})
       => UNCHANGED <<monStatus, reconnectTimer>>]_vars

\* C29: after the monitor is torn down, no pending reconnect timer opens a
\* new connection, and no late socket message or close callback changes its
\* state or invokes onComplete or onScenariosReady.
C29_TornDownIsInert ==
  [][~monMounted =>
       UNCHANGED <<monStatus, testStarted, events, currentStep, totalSteps,
                   steps, liveImage, stepLabel, reconnectTimer, readyCalls,
                   connects, ctlVars>>]_vars

\* the close callback of a running monitor's socket arrived after the unmount
C29_Witness ==
  /\ ~monMounted
  /\ monSock = "closed"
  /\ monStatus = "running"

(* ------------------------- error surfacing: claims ---------------------- *)
\* C24: no failure of a workflow call is swallowed: a failed remote call
\* (here the status refresh after completion) leaves a non-empty error string
\* attached to the workflow.
C24_NoFailureSwallowed ==
  [][\A k \in Scans : RefreshFail(k) => error' # ""]_vars

(* ------------------------- direct mode handlers ------------------------- *)
\* page.tsx 669, 760-764: the links that switch between scanning and writing
\* tests directly; the link into the direct mode is rendered while no scan
\* has been started
SetDirectMode(on) ==
  /\ directMode # on
  /\ on => scanPhase = "idle"
  /\ directMode' = on
  /\ UNCHANGED <<scanVars, phase, activeTest, testPassed, jobVars, uiLast,
                 converting, convertedYaml, submitting, convertValidationSummary,
                 scenarioYaml, edYaml, edPc, edSaving, edError, edCalls,
                 scanValidationSummary, monVars>>

\* what the direct mode handlers leave alone
DirectRest == <<directMode, edYaml, edPc, edSaving, edError, edCalls,
                scanValidationSummary, testPassed, cancelling, cancelClosure,
                scanExecuting, exec, additionalYaml, additionalConverting,
                cancelIssued, uiLast, scanPhase, ScanRest, monVars>>

\* page.tsx 115-123, 683-686: handleConvert up to its await
HandleConvert ==
  /\ directMode
  /\ ~converting
  /\ ~IsBusy
  /\ error' = ""
  /\ converting' = TRUE
  /\ convertedYaml' = ""
  /\ convertValidationSummary' = NoSummary
  /\ UNCHANGED <<DirectRest, phase, activeTest, jobs, submitting, scenarioYaml>>

\* page.tsx 124-127, 132-134: convertScenario resolved
ConvertOk(yaml, summary) ==
  /\ converting
  /\ convertedYaml' = yaml
  /\ convertValidationSummary' = OrElseSummary(summary)
  /\ converting' = FALSE
  /\ UNCHANGED <<DirectRest, error, phase, activeTest, jobs, submitting,
                 scenarioYaml>>

\* page.tsx 128-134: convertScenario rejected
ConvertFail ==
  /\ converting
  /\ error' = "Conversion failed"
  /\ converting' = FALSE
  /\ UNCHANGED <<DirectRest, phase, activeTest, jobs, submitting, scenarioYaml,
                 convertedYaml, convertValidationSummary>>

\* page.tsx 159-164, 699, 745-748: handleRunConverted up to its await
HandleRunConverted ==
  /\ directMode
  /\ convertedYaml # ""
  /\ ~IsBusy
  /\ error' = ""
  /\ submitting' = TRUE
  /\ activeTest' = NoTest
  /\ phase' = "idle"
  /\ scenarioYaml' = ""
  /\ UNCHANGED <<DirectRest, jobs, converting, convertedYaml,
                 convertValidationSummary>>

\* a resolution of createTest that shows the run without making its job the
\* active one
RunConvertedOkNoJob ==
  /\ submitting
  /\ jobs' = Append(jobs, Job(convertedYaml))
  /\ phase' = "executing"
  /\ convertedYaml' = ""
  /\ submitting' = FALSE
  /\ UNCHANGED <<DirectRest, error, activeTest, converting, scenarioYaml,
                 convertValidationSummary>>

\* page.tsx 166-172, 176-178: createTest resolved with the job the remote
\* service created for the converted document
RunConvertedOk ==
  /\ submitting
  /\ jobs' = Append(jobs, Job(convertedYaml))
  /\ activeTest' = [id |-> Len(jobs) + 1, status |-> "queued"]
  /\ phase' = "executing"
  /\ convertedYaml' = ""
  /\ submitting' = FALSE
  /\ UNCHANGED <<DirectRest, error, converting, scenarioYaml,
                 convertValidationSummary>>

\* page.tsx 173-178: createTest rejected
RunConvertedFail ==
  /\ submitting
  /\ error' = "Failed to start test"
  /\ submitting' = FALSE
  /\ UNCHANGED <<DirectRest, phase, activeTest, jobs, converting, convertedYaml,
                 scenarioYaml, convertValidationSummary>>

(* --------------------------- validation summary ------------------------- *)
\* a summary rendered whenever one is held, whatever its total
SummaryShownAny(s) == s.present

\* page.tsx 702, 1167: the summary is rendered
SummaryShown(s) == s.present /\ s.total > 0

\* a classification whose upper threshold is exclusive
QualityClassStrict(percent) ==
  IF percent > 70 THEN "good" ELSE IF percent >= 50 THEN "marginal" ELSE "poor"

\* page.tsx 703-709, 1169-1175: the colour class of the summary
QualityClass(percent) ==
  IF percent >= 70 THEN "good" ELSE IF percent >= 50 THEN "marginal" ELSE "poor"

\* page.tsx 717-719, 1183-1185: the validationLowQuality line is rendered
LowQualityWarning(percent) == percent < 50

(* ---------------------- the validation specification -------------------- *)
\* the longest validation list the remote service reduces in the explored runs
MaxTotal == 100

\* what an execute or convert response carries: the summary of a list of up
\* to MaxTotal items, or none
Summaries ==
  UNION { { ValidationSummaryOf(v, t) : v \in 0..t } : t \in 0..MaxTotal }
  \cup {NoSummary}

\* the operator converts in the direct mode, or runs the tests of a generated
\* plan
NextValidation ==
  \/ \E on \in BOOLEAN : SetDirectMode(on)
  \/ HandleConvert
  \/ converting /\ \E s \in Summaries : ConvertOk("converted", s)
  \/ ConvertFail
  \/ \E plan \in Plans : GenPlanOk(1, plan)
  \/ Len(jobs) < MaxJobs /\ HandleExecuteScan
  \/ exec.pc = "normExec" /\ \E s \in Summaries : ExecNormScanOk(s)
  \/ ExecNormGetOk
  \/ ExecFail

SpecValidation == (Init \/ PlanInit) /\ [][NextValidation]_vars

(* -------------------------- validation: claims -------------------------- *)
\* the summaries the controller holds
HeldSummaries == {convertValidationSummary, scanValidationSummary}

\* p is n / d rounded to the nearest integer, halves upwards
IsRounded(p, n, d) == 2 * d * p <= 2 * n + d /\ 2 * n + d < 2 * d * (p + 1)

C26_QualityClass ==
  \A s \in HeldSummaries : SummaryShown(s) =>
    LET p == s.percent
        c == QualityClass(p)
    IN  /\ p \in 0..100
        /\ c \in {"good", "marginal", "poor"}
        /\ c = "good" <=> p >= 70
        /\ c = "marginal" <=> (50 <= p /\ p <= 69)
        /\ c = "poor" <=> p < 50
        /\ LowQualityWarning(p) <=> c = "poor"

\* a summary on the lower edge of the good class is shown
C26_Witness ==
  /\ SummaryShown(convertValidationSummary)
  /\ convertValidationSummary.percent = 70
  /\ convertedYaml # ""

(* ----------------------- the direct run specification ------------------- *)
\* the operator either works on a generated plan or converts and runs tests
\* directly; a render is committed before the next event is handled
NextDirect ==
  \/ NextControl
  \/ \E on \in BOOLEAN : Rendered /\ SetDirectMode(on)
  \/ Rendered /\ HandleConvert
  \/ Rendered /\ ConvertOk("converted", ControlSummary)
  \/ Rendered /\ ConvertFail
  \/ Rendered /\ Len(jobs) < MaxJobs /\ HandleRunConverted
  \/ Rendered /\ RunConvertedOk
  \/ Rendered /\ RunConvertedFail

SpecDirect == (Init \/ PlanInit) /\ [][NextDirect]_vars

(* ------------------------- phase and job: claims ------------------------ *)
\* C30: in every reachable state of the controller, a phase of generating,
\* review, executing or done implies that an active execution job is set.
C30_PhaseHasActiveJob ==
  phase \in {"generating", "review", "executing", "done"} => activeTest # NoTest

\* a second converted run, started from the done phase of the first, is
\* executing with its own job active
C30_Witness ==
  /\ directMode
  /\ phase = "executing"
  /\ Len(jobs) = 2
  /\ activeTest = [id |-> 2, status |-> "queued"]

(* ------------------------ scenario review handlers ---------------------- *)
\* page.tsx 1268-1275: the ScenarioEditor is rendered
EditorShown == activeTest # NoTest /\ phase = "review" /\ scenarioYaml # ""

\* api.ts 183-186, 195-198: the message of a rejected call is the detail of
\* the response, or the status when the response carries none
RemoteMessage(detail) == OrElseStr(detail, "Error " \o "409")

\* what the editor's handlers leave alone
ReviewRest == <<scanVars, activeTest, testPassed, cancelling, cancelClosure,
                scanExecuting, exec, additionalYaml, additionalConverting,
                cancelIssued, uiLast, directMode, converting, convertedYaml,
                submitting, convertValidationSummary, scanValidationSummary,
                scenarioYaml, monVars>>

\* ScenarioEditor.tsx 16, 79-84: the operator edits the document
SetYaml(text) ==
  /\ EditorShown
  /\ edYaml # text
  /\ edYaml' = text
  /\ edSaving' = [edSaving EXCEPT !.saved = FALSE]
  /\ UNCHANGED <<ReviewRest, phase, jobs, edPc, edError, edCalls>>

\* ScenarioEditor.tsx 22-25, 89-91: handleSave up to its await
HandleSave ==
  /\ EditorShown
  /\ ~edSaving.on
  /\ edError' = ""
  /\ edSaving' = [on |-> TRUE, yaml |-> edYaml, saved |-> FALSE]
  /\ UNCHANGED <<ReviewRest, phase, jobs, edYaml, edPc, edCalls>>

\* ScenarioEditor.tsx 26-28, 32-34: updateScenarios of handleSave resolved;
\* an editor that is no longer rendered keeps no state
SaveOk ==
  /\ edSaving.on
  /\ jobs' = [jobs EXCEPT ![activeTest.id].doc = edSaving.yaml]
  /\ edSaving' = [on |-> FALSE, yaml |-> "", saved |-> EditorShown]
  /\ UNCHANGED <<ReviewRest, phase, edYaml, edPc, edError, edCalls>>

\* ScenarioEditor.tsx 29-34: updateScenarios of handleSave rejected
SaveFail(detail) ==
  /\ edSaving.on
  /\ edError' = IF EditorShown THEN RemoteMessage(detail) ELSE edError
  /\ edSaving' = [edSaving EXCEPT !.on = FALSE, !.yaml = ""]
  /\ UNCHANGED <<ReviewRest, phase, jobs, edYaml, edPc, edCalls>>

\* ScenarioEditor.tsx 37-41, 104-106: handleRunTest up to its first await
HandleRunTest ==
  /\ EditorShown
  /\ edPc.at = "idle"
  /\ edYaml # ""
  /\ edError' = ""
  /\ edPc' = [at |-> "update", yaml |-> edYaml]
  /\ edCalls' = <<>>
  /\ UNCHANGED <<ReviewRest, phase, jobs, edYaml, edSaving>>

\* ScenarioEditor.tsx 41-42: updateScenarios resolved, approveTest is called
UpdateOk ==
  /\ edPc.at = "update"
  /\ jobs' = [jobs EXCEPT ![activeTest.id].doc = edPc.yaml]
  /\ edPc' = [edPc EXCEPT !.at = "approve"]
  /\ edCalls' = Append(edCalls, "update")
  /\ UNCHANGED <<ReviewRest, phase, edYaml, edSaving, edError>>

\* ScenarioEditor.tsx 41, 44-48: updateScenarios rejected
UpdateFail(detail) ==
  /\ edPc.at = "update"
  /\ edError' = RemoteMessage(detail)
  /\ edPc' = NoRun
  /\ UNCHANGED <<ReviewRest, phase, jobs, edYaml, edSaving, edCalls>>

\* page.tsx 194-196
handleApprove == phase' = "executing"

\* ScenarioEditor.tsx 42-43, 46-48: approveTest resolved, onApprove is called
ApproveOk ==
  /\ edPc.at = "approve"
  /\ edCalls' = Append(edCalls, "approve")
  /\ handleApprove
  /\ edPc' = NoRun
  /\ UNCHANGED <<ReviewRest, jobs, edYaml, edSaving, edError>>

\* a handler that goes on to onApprove although approveTest was rejected
ApproveFailGoesOn(detail) ==
  /\ edPc.at = "approve"
  /\ edError' = RemoteMessage(detail)
  /\ handleApprove
  /\ edPc' = NoRun
  /\ UNCHANGED <<ReviewRest, jobs, edYaml, edSaving, edCalls>>

\* ScenarioEditor.tsx 42, 44-48: approveTest rejected
ApproveFail(detail) ==
  /\ edPc.at = "approve"
  /\ edError' = RemoteMessage(detail)
  /\ edPc' = NoRun
  /\ UNCHANGED <<ReviewRest, phase, jobs, edYaml, edSaving, edCalls>>

(* ------------------------ the review specification ---------------------- *)
\* page.tsx 1268-1275, ScenarioEditor.tsx 14-20: a job is in review and its
\* ScenarioEditor has just mounted with the job's document
ReviewInit ==
  /\ ScanInit
  /\ phase = "review"
  /\ activeTest = [id |-> 1, status |-> "review"]
  /\ testPassed = FALSE
  /\ cancelling = FALSE
  /\ cancelClosure = NoTest
  /\ scanExecuting = FALSE
  /\ exec = NoExec
  /\ additionalYaml = ""
  /\ additionalConverting = FALSE
  /\ jobs = <<Job("scenarios")>>
  /\ cancelIssued = {}
  /\ uiLast = NoUi
  /\ directMode = FALSE
  /\ converting = FALSE
  /\ convertedYaml = ""
  /\ submitting = FALSE
  /\ convertValidationSummary = NoSummary
  /\ scanValidationSummary = NoSummary
  /\ scenarioYaml = "scenarios"
  /\ edYaml = scenarioYaml
  /\ edPc = NoRun
  /\ edSaving = NoSave
  /\ edError = ""
  /\ edCalls = <<>>
  /\ MonAbsent

\* what the operator types into the editor: a document or blanks
YamlTexts == {"", "scenarios", "edited"}

\* the details of the rejections the remote service answers with
Details == {"", "Test is not in review"}

\* the operator edits, saves and runs; once the run is approved the page
\* replaces the editor by the monitor of the executing job
NextReview ==
  \/ \E text \in YamlTexts : SetYaml(text)
  \/ HandleSave
  \/ SaveOk
  \/ \E d \in Details : SaveFail(d)
  \/ HandleRunTest
  \/ UpdateOk
  \/ \E d \in Details : UpdateFail(d)
  \/ ApproveOk
  \/ \E d \in Details : ApproveFail(d)
  \/ ~Rendered /\ PageMount

SpecReview == ReviewInit /\ [][NextReview]_vars

(* ---------------------------- review: claims ---------------------------- *)
\* C23: the phase moves from review to executing only after the scenario
\* update and then the approve call have both succeeded, in that order; if
\* either call is rejected, the approve transition does not happen, the phase
\* stays review, the remote message is shown to the operator and no retry is
\* made.
C23_ApproveAfterUpdate ==
  [][/\ (phase = "review" /\ phase' = "executing")
          => edCalls' = <<"update", "approve">>
     /\ \A d \in Details : (UpdateFail(d) \/ ApproveFail(d)) =>
          /\ phase = "review" /\ phase' = "review"
          /\ edError' = RemoteMessage(d) /\ edError' # ""
          /\ edPc'.at = "idle"
          /\ edCalls' = edCalls]_vars

\* the update succeeded and the approve call was rejected: the editor shows
\* the remote message and the job is still in review
C23_Witness ==
  /\ phase = "review"
  /\ edCalls = <<"update">>
  /\ edPc.at = "idle"
  /\ edError = "Test is not in review"

====
